---- MODULE Spec2Model ----
(***************************************************************************)
(* A model of src/main.py: the ConvexPolygon value type, its constructor   *)
(* with the convexity check, the memoised properties and the geometric     *)
(* queries.                                                                *)
(*                                                                         *)
(* Numbers.  The constructor turns every coordinate into a Python float.   *)
(* All inputs of this model are integers of small magnitude, for which     *)
(* float() and every sum, difference and product the code forms are exact  *)
(* (all intermediate values stay far below 2^53), so floats are modelled   *)
(* by the integers.  Two values of the code are not integers:              *)
(*   - area = abs(sum) / 2.0 : represented in HALF UNITS, i.e. by the      *)
(*     integer abs(sum); the represented area is that integer divided by 2;*)
(*   - perimeter = sum of hypot(dx, dy) : represented by the sequence of   *)
(*     the squared edge lengths dx*dx + dy*dy in summation order; the      *)
(*     represented perimeter is the sum of their square roots.             *)
(* Python's None is the empty sequence <<>>, a value v that may be None is *)
(* held as <<v>>.                                                          *)
(***************************************************************************)
EXTENDS Integers, Sequences, FiniteSets, TLC

VARIABLES input, obj, error, ret

vars == <<input, obj, error, ret>>

\* ---------------------------------------------------------------- bounds
\* The inputs of a specification are the vertex lists of at most MaxN..
\* points with both coordinates in 0..MaxCoord.. .
\* Spec (one object, every operation):
MaxCoord == 1
MaxN == 3
\* SpecCtor (the constructor alone):
MaxCoordCtor == 2
MaxNCtor == 4
\* SpecOne (one object, its geometric queries):
MaxCoordOne == 2
MaxNOne == 5
\* SpecPair (two objects, the binary queries):
MaxCoordPair == 1
MaxNPair == 3
\* SpecFar (two objects apart): the length of the first list
MaxNFar == 5

\* ---------------------------------------------------------------- values
None == <<>>
Some(v) == <<v>>
Val(o) == o[1]

Point(x, y) == <<x, y>>
PX(p) == p[1]
PY(p) == p[2]

\* float(x) on the integers of the model (exact, see the header).
Float(x) == x

Abs(x) == IF x < 0 THEN -x ELSE x

\* vertices[i % n] with Python's 0-based index i
At(vs, i) == vs[(i % Len(vs)) + 1]

\* tuple(Point(float(x), float(y)) for x, y in vertices)
ToPoints(vertices) == [k \in 1..Len(vertices) |->
                          Point(Float(vertices[k][1]), Float(vertices[k][2]))]

\* ------------------------------------------------------------ _is_convex
\* cross of the edge vectors p1->p2 and p2->p3
TurnCross(p1, p2, p3) ==
    LET dx1 == PX(p2) - PX(p1)
        dy1 == PY(p2) - PY(p1)
        dx2 == PX(p3) - PX(p2)
        dy2 == PY(p3) - PY(p2)
    IN  dx1 * dy2 - dy1 * dx2

\* ConvexLoop without the final test for a degenerate list: "return True"
\* in place of "return first_sign is not None".
RECURSIVE ConvexLoopNoDegenerate(_, _, _)
ConvexLoopNoDegenerate(vs, i, first_sign) ==
    IF i >= Len(vs) THEN TRUE
    ELSE LET cross == TurnCross(At(vs, i), At(vs, i + 1), At(vs, i + 2))
         IN  IF cross # 0
             THEN LET current_sign == cross > 0
                  IN  IF first_sign = None
                      THEN ConvexLoopNoDegenerate(vs, i + 1, Some(current_sign))
                      ELSE IF Val(first_sign) # current_sign
                           THEN FALSE
                           ELSE ConvexLoopNoDegenerate(vs, i + 1, first_sign)
             ELSE ConvexLoopNoDegenerate(vs, i + 1, first_sign)

\* The loop "for i in range(n)" of _is_convex from index i on, first_sign
\* being None or Some(boolean).
RECURSIVE ConvexLoop(_, _, _)
ConvexLoop(vs, i, first_sign) ==
    IF i >= Len(vs) THEN first_sign # None
    ELSE LET cross == TurnCross(At(vs, i), At(vs, i + 1), At(vs, i + 2))
         IN  IF cross # 0
             THEN LET current_sign == cross > 0
                  IN  IF first_sign = None
                      THEN ConvexLoop(vs, i + 1, Some(current_sign))
                      ELSE IF Val(first_sign) # current_sign
                           THEN FALSE
                           ELSE ConvexLoop(vs, i + 1, first_sign)
             ELSE ConvexLoop(vs, i + 1, first_sign)

IsConvex(vs) ==
    IF Len(vs) < 3 THEN FALSE ELSE ConvexLoop(vs, 0, None)

\* ------------------------------------------------------------ properties
RECURSIVE ShoelaceSum(_, _)
ShoelaceSum(vs, i) ==
    IF i >= Len(vs) THEN 0
    ELSE LET p1 == At(vs, i)
             p2 == At(vs, i + 1)
         IN  (PX(p1) * PY(p2) - PX(p2) * PY(p1)) + ShoelaceSum(vs, i + 1)

\* abs(area) / 2.0, in half units
AreaOf(vs) == Abs(ShoelaceSum(vs, 0))

\* the terms of the perimeter sum (squared lengths, see the header)
PerimeterOf(vs) ==
    [k \in 1..Len(vs) |->
        LET p1 == At(vs, k - 1)
            p2 == At(vs, k)
        IN  (PX(p2) - PX(p1)) * (PX(p2) - PX(p1))
          + (PY(p2) - PY(p1)) * (PY(p2) - PY(p1))]

Min(S) == CHOOSE m \in S : \A e \in S : m <= e
Max(S) == CHOOSE m \in S : \A e \in S : m >= e

\* (min(xs), min(ys), max(xs), max(ys))
BoundingBoxOf(vs) ==
    LET xs == {PX(vs[k]) : k \in 1..Len(vs)}
        ys == {PY(vs[k]) : k \in 1..Len(vs)}
    IN  <<Min(xs), Min(ys), Max(xs), Max(ys)>>

\* -------------------------------------------------------- contains_point
\* ContainsLoop that leaves out the closing edge: "range(n - 1)" in place of
\* "range(n)".
RECURSIVE ContainsLoopNoClose(_, _, _, _)
ContainsLoopNoClose(vs, point, i, sign) ==
    IF i >= Len(vs) - 1 THEN TRUE
    ELSE LET a == At(vs, i)
             b == At(vs, i + 1)
             cross == (PX(b) - PX(a)) * (PY(point) - PY(a))
                    - (PY(b) - PY(a)) * (PX(point) - PX(a))
         IN  IF cross # 0
             THEN LET current_sign == cross > 0
                  IN  IF sign = None
                      THEN ContainsLoopNoClose(vs, point, i + 1, Some(current_sign))
                      ELSE IF Val(sign) # current_sign
                           THEN FALSE
                           ELSE ContainsLoopNoClose(vs, point, i + 1, sign)
             ELSE ContainsLoopNoClose(vs, point, i + 1, sign)

\* The loop "for i in range(n)" of contains_point from index i on, sign being
\* None or Some(boolean).
RECURSIVE ContainsLoop(_, _, _, _)
ContainsLoop(vs, point, i, sign) ==
    IF i >= Len(vs) THEN TRUE
    ELSE LET a == At(vs, i)
             b == At(vs, i + 1)
             cross == (PX(b) - PX(a)) * (PY(point) - PY(a))
                    - (PY(b) - PY(a)) * (PX(point) - PX(a))
         IN  IF cross # 0
             THEN LET current_sign == cross > 0
                  IN  IF sign = None
                      THEN ContainsLoop(vs, point, i + 1, Some(current_sign))
                      ELSE IF Val(sign) # current_sign
                           THEN FALSE
                           ELSE ContainsLoop(vs, point, i + 1, sign)
             ELSE ContainsLoop(vs, point, i + 1, sign)

ContainsPoint(vs, point) ==
    ContainsLoop(vs, Point(Float(point[1]), Float(point[2])), 0, None)

\* all(self.contains_point(v) for v in other.vertices)
ContainsPolygon(vs, other) ==
    \A k \in 1..Len(other) : ContainsPoint(vs, other[k])

\* ------------------------------------------------------------ SAT
\* _project: the loop over vertices[1:] (0-based index i), with the running
\* pair mm = <<min_proj, max_proj>>
RECURSIVE ProjectLoop(_, _, _, _, _)
ProjectLoop(vertices, axis_x, axis_y, i, mm) ==
    IF i >= Len(vertices) THEN mm
    ELSE LET v == vertices[i + 1]
             proj == PX(v) * axis_x + PY(v) * axis_y
         IN  IF proj < mm[1]
             THEN ProjectLoop(vertices, axis_x, axis_y, i + 1, <<proj, mm[2]>>)
             ELSE IF proj > mm[2]
                  THEN ProjectLoop(vertices, axis_x, axis_y, i + 1, <<mm[1], proj>>)
                  ELSE ProjectLoop(vertices, axis_x, axis_y, i + 1, mm)

Project(vertices, axis_x, axis_y) ==
    LET p0 == PX(vertices[1]) * axis_x + PY(vertices[1]) * axis_y
    IN  ProjectLoop(vertices, axis_x, axis_y, 1, <<p0, p0>>)

RECURSIVE SatLoop(_, _, _)
SatLoop(poly1, poly2, i) ==
    IF i >= Len(poly1) THEN TRUE
    ELSE LET a == At(poly1, i)
             b == At(poly1, i + 1)
             edge_x == PX(b) - PX(a)
             edge_y == PY(b) - PY(a)
             axis_x == -edge_y
             axis_y == edge_x
         IN  IF axis_x = 0 /\ axis_y = 0
             THEN SatLoop(poly1, poly2, i + 1)
             ELSE LET m1 == Project(poly1, axis_x, axis_y)
                      m2 == Project(poly2, axis_x, axis_y)
                  IN  IF m1[2] < m2[1] \/ m2[2] < m1[1]
                      THEN FALSE
                      ELSE SatLoop(poly1, poly2, i + 1)

SatCheck(poly1, poly2) == SatLoop(poly1, poly2, 0)

\* intersects that tests the edges of self only.
IntersectsOneWay(vs, other) == SatCheck(vs, other)

Intersects(vs, other) ==
    IF ~SatCheck(vs, other) THEN FALSE
    ELSE IF ~SatCheck(other, vs) THEN FALSE
    ELSE TRUE

\* ------------------------------------------------------------ triangulation
Triangulation(vs) ==
    IF Len(vs) < 3 THEN <<>>
    ELSE [k \in 1..(Len(vs) - 2) |-> <<vs[1], vs[k + 1], vs[k + 2]>>]

\* ------------------------------------------------------------ state
\* input[s] : the list the caller passes to ConvexPolygon(...) for object s
\* obj[s]   : None, or Some(the object): its four attributes
\* error[s] : the constructor call for s raised ValueError
\* ret      : the operation last completed and the value it returned
Slots == {"A", "B"}

NoRet == [op |-> "none", self |-> "A", arg |-> None, val |-> None]

Returned(op, s, arg, val) == [op |-> op, self |-> s, arg |-> arg, val |-> val]

Self(s) == Val(obj[s])

Constructed(s) == obj[s] # None

Coords(maxc) == 0..maxc

Points(maxc) == Coords(maxc) \X Coords(maxc)

\* __init__
Construct(s) ==
    /\ obj[s] = None
    /\ ~error[s]
    /\ IF Len(input[s]) < 3
       THEN /\ error' = [error EXCEPT ![s] = TRUE]
            /\ UNCHANGED obj
       ELSE LET vs == ToPoints(input[s])
            IN  IF ~IsConvex(vs)
                THEN /\ error' = [error EXCEPT ![s] = TRUE]
                     /\ UNCHANGED obj
                ELSE /\ obj' = [obj EXCEPT ![s] =
                                  Some([_vertices |-> vs,
                                        _area |-> None,
                                        _perimeter |-> None,
                                        _bounding_box |-> None])]
                     /\ UNCHANGED error
    /\ UNCHANGED <<input, ret>>

\* property vertices
GetVertices(s) ==
    /\ Constructed(s)
    /\ ret' = Returned("vertices", s, None, Self(s)._vertices)
    /\ UNCHANGED <<input, obj, error>>

\* property area
GetArea(s) ==
    /\ Constructed(s)
    /\ LET new == IF Self(s)._area = None
                  THEN [Self(s) EXCEPT !._area = Some(AreaOf(Self(s)._vertices))]
                  ELSE Self(s)
       IN  /\ obj' = [obj EXCEPT ![s] = Some(new)]
           /\ ret' = Returned("area", s, None, Val(new._area))
    /\ UNCHANGED <<input, error>>

\* property perimeter
GetPerimeter(s) ==
    /\ Constructed(s)
    /\ LET new == IF Self(s)._perimeter = None
                  THEN [Self(s) EXCEPT
                          !._perimeter = Some(PerimeterOf(Self(s)._vertices))]
                  ELSE Self(s)
       IN  /\ obj' = [obj EXCEPT ![s] = Some(new)]
           /\ ret' = Returned("perimeter", s, None, Val(new._perimeter))
    /\ UNCHANGED <<input, error>>

\* property bounding_box
GetBoundingBox(s) ==
    /\ Constructed(s)
    /\ LET new == IF Self(s)._bounding_box = None
                  THEN [Self(s) EXCEPT
                          !._bounding_box = Some(BoundingBoxOf(Self(s)._vertices))]
                  ELSE Self(s)
       IN  /\ obj' = [obj EXCEPT ![s] = Some(new)]
           /\ ret' = Returned("bounding_box", s, None, Val(new._bounding_box))
    /\ UNCHANGED <<input, error>>

\* contains_point(point)
CallContainsPoint(s, point) ==
    /\ Constructed(s)
    /\ ret' = Returned("contains_point", s, Some(point),
                       ContainsPoint(Self(s)._vertices, point))
    /\ UNCHANGED <<input, obj, error>>

\* self.contains_polygon(other); other.vertices is the property of other
CallContainsPolygon(s, o) ==
    /\ Constructed(s)
    /\ Constructed(o)
    /\ ret' = Returned("contains_polygon", s, Some(o),
                       ContainsPolygon(Self(s)._vertices, Self(o)._vertices))
    /\ UNCHANGED <<input, obj, error>>

\* intersects that first compares the two bounding_box properties, which
\* fills their cache slots.
CallIntersectsBox(s, o) ==
    /\ Constructed(s)
    /\ Constructed(o)
    /\ obj' = [t \in Slots |->
                 IF t \in {s, o} /\ Self(t)._bounding_box = None
                 THEN Some([Self(t) EXCEPT
                              !._bounding_box = Some(BoundingBoxOf(Self(t)._vertices))])
                 ELSE obj[t]]
    /\ ret' = Returned("intersects", s, Some(o),
                       Intersects(Self(s)._vertices, Self(o)._vertices))
    /\ UNCHANGED <<input, error>>

\* self.intersects(other)
CallIntersects(s, o) ==
    /\ Constructed(s)
    /\ Constructed(o)
    /\ ret' = Returned("intersects", s, Some(o),
                       Intersects(Self(s)._vertices, Self(o)._vertices))
    /\ UNCHANGED <<input, obj, error>>

\* triangulation()
CallTriangulation(s) ==
    /\ Constructed(s)
    /\ ret' = Returned("triangulation", s, None, Triangulation(Self(s)._vertices))
    /\ UNCHANGED <<input, obj, error>>

\* ------------------------------------------------------------ inputs
\* The caller's lists: for A any list of at most maxn points of Pts, for B
\* any list of DomB.
InitWith(Pts, maxn, DomB) ==
    /\ \E n \in 0..maxn : \E a \in [1..n -> Pts] : \E b \in DomB :
           input = [s \in Slots |-> IF s = "A" THEN a ELSE b]
    /\ obj = [s \in Slots |-> None]
    /\ error = [s \in Slots |-> FALSE]
    /\ ret = NoRet

\* Vertex lists for the second object of SpecPair: the two squares of the
\* demonstration (poly1, poly2), a small triangle, a list that repeats a
\* vertex, a list of collinear points.
Samples ==
    { << <<0, 0>>, <<4, 0>>, <<4, 4>>, <<0, 4>> >>,
      << <<1, 1>>, <<3, 1>>, <<3, 3>>, <<1, 3>> >>,
      << <<0, 0>>, <<1, 0>>, <<0, 1>> >>,
      << <<1, 1>>, <<1, 1>>, <<2, 2>>, <<1, 1>>, <<2, 0>> >>,
      << <<0, 0>>, <<1, 0>>, <<2, 0>> >> }

\* SpecFar: the first list is drawn from the lists over three points left of
\* x = 3, the second from lists right of it.
NearPoints == { <<1, 1>>, <<2, 2>>, <<2, 0>> }

FarSamples ==
    { << <<4, 1>>, <<4, 1>>, <<3, 2>>, <<4, 1>>, <<3, 0>> >>,
      << <<3, 0>>, <<4, 0>>, <<3, 1>> >>,
      << <<3, 0>>, <<4, 0>> >> }

\* ------------------------------------------------------------ Spec
\* One object A, every operation of the class.  contains_point is called
\* with the three points the demonstration tests.
ProbePoints == { <<2, 2>>, <<5, 5>>, <<0, 0>> }

Init == InitWith(Points(MaxCoord), MaxN, {<<>>})

Next ==
    \/ Construct("A")
    \/ GetVertices("A")
    \/ GetArea("A")
    \/ GetPerimeter("A")
    \/ GetBoundingBox("A")
    \/ \E point \in ProbePoints : CallContainsPoint("A", point)
    \/ CallContainsPolygon("A", "A")
    \/ CallIntersects("A", "A")
    \/ CallTriangulation("A")

Spec == Init /\ [][Next]_vars

\* ------------------------------------------------------------ SpecCtor
\* The constructor alone, on a wider set of inputs.
InitCtor == InitWith(Points(MaxCoordCtor), MaxNCtor, {<<>>})

NextCtor ==
    \/ Construct("A")
    \/ GetVertices("A")

SpecCtor == InitCtor /\ [][NextCtor]_vars

\* ------------------------------------------------------------ SpecOne
\* One object A and the queries on its geometry.
InitOne == InitWith(Points(MaxCoordOne), MaxNOne, {<<>>})

NextOne ==
    \/ Construct("A")
    \/ GetArea("A")
    \/ \E point \in Points(MaxCoordOne) : CallContainsPoint("A", point)
    \/ CallTriangulation("A")

SpecOne == InitOne /\ [][NextOne]_vars

\* ------------------------------------------------------------ SpecPair
\* Two objects and the binary queries, in both directions.
InitPair == InitWith(Points(MaxCoordPair), MaxNPair, Samples)

NextPair ==
    \/ \E s \in Slots : Construct(s)
    \/ \E s \in Slots : \E o \in Slots \ {s} : CallContainsPolygon(s, o)
    \/ \E s \in Slots : \E o \in Slots \ {s} : CallIntersects(s, o)

SpecPair == InitPair /\ [][NextPair]_vars

\* ------------------------------------------------------------ SpecFar
\* Two objects whose vertex lists lie apart.
InitFar == InitWith(NearPoints, MaxNFar, FarSamples)

NextFar ==
    \/ \E s \in Slots : Construct(s)
    \/ \E s \in Slots : \E o \in Slots \ {s} : CallIntersects(s, o)

SpecFar == InitFar /\ [][NextFar]_vars

\* ============================================================ properties
\* Helpers of the properties below.

\* the cyclic turning cross products of a vertex list
Crosses(vs) ==
    {TurnCross(At(vs, i), At(vs, i + 1), At(vs, i + 2)) : i \in 0..(Len(vs) - 1)}

Distinct(vs) == \A i, j \in 1..Len(vs) : i # j => vs[i] # vs[j]

Sign(x) == IF x > 0 THEN 1 ELSE IF x < 0 THEN -1 ELSE 0

\* orientation of the triple a, b, c
Orientation(a, b, c) ==
    Sign((PX(b) - PX(a)) * (PY(c) - PY(a)) - (PY(b) - PY(a)) * (PX(c) - PX(a)))

\* c, collinear with a and b, lies within the span of the segment a b
OnSegment(a, b, c) ==
    /\ (IF PX(a) < PX(b) THEN PX(a) ELSE PX(b)) <= PX(c)
    /\ PX(c) <= (IF PX(a) < PX(b) THEN PX(b) ELSE PX(a))
    /\ (IF PY(a) < PY(b) THEN PY(a) ELSE PY(b)) <= PY(c)
    /\ PY(c) <= (IF PY(a) < PY(b) THEN PY(b) ELSE PY(a))

\* the closed segments p1 p2 and p3 p4 have a common point
SegmentsIntersect(p1, p2, p3, p4) ==
    LET o1 == Orientation(p1, p2, p3)
        o2 == Orientation(p1, p2, p4)
        o3 == Orientation(p3, p4, p1)
        o4 == Orientation(p3, p4, p2)
    IN  \/ o1 # o2 /\ o3 # o4
        \/ o1 = 0 /\ OnSegment(p1, p2, p3)
        \/ o2 = 0 /\ OnSegment(p1, p2, p4)
        \/ o3 = 0 /\ OnSegment(p3, p4, p1)
        \/ o4 = 0 /\ OnSegment(p3, p4, p2)

\* edges i and j (0-based) of the cyclic edge list share no vertex
ShareNoVertex(vs, i, j) ==
    /\ i # j
    /\ (i + 1) % Len(vs) # j
    /\ (j + 1) % Len(vs) # i
    /\ {At(vs, i), At(vs, i + 1)} \cap {At(vs, j), At(vs, j + 1)} = {}

Simple(vs) ==
    \A i, j \in 0..(Len(vs) - 1) :
        ShareNoVertex(vs, i, j) =>
            ~SegmentsIntersect(At(vs, i), At(vs, i + 1), At(vs, j), At(vs, j + 1))

\* twice the absolute area of a triangle, i.e. its area in half units
TriangleArea(t) ==
    Abs((PX(t[2]) - PX(t[1])) * (PY(t[3]) - PY(t[1]))
      - (PY(t[2]) - PY(t[1])) * (PX(t[3]) - PX(t[1])))

RECURSIVE SumTriangleAreas(_)
SumTriangleAreas(ts) ==
    IF ts = <<>> THEN 0 ELSE TriangleArea(Head(ts)) + SumTriangleAreas(Tail(ts))

\* the bounding boxes (min_x, min_y, max_x, max_y) a and b do not overlap
BoxesApart(a, b) ==
    \/ a[3] < b[1]
    \/ b[3] < a[1]
    \/ a[4] < b[2]
    \/ b[4] < a[2]

\* the other object of the binary operation ret records
Other == Val(ret.arg)

\* ------------------------------------------------------------ C1
\* C1: every polygon the constructor accepts is simple: no two edges that
\* share no vertex intersect.  (SpecOne)
C1_AcceptedIsSimple ==
    Constructed("A") => Simple(Self("A")._vertices)

\* ------------------------------------------------------------ C2
\* C2: every polygon the constructor accepts has pairwise distinct vertices:
\* an input with the same coordinates at two positions is rejected.  (SpecOne)
C2_AcceptedIsDistinct ==
    Constructed("A") => Distinct(input["A"]) /\ Distinct(Self("A")._vertices)

\* ------------------------------------------------------------ C3
\* an input the constructor has to refuse: (a) fewer than 3 vertices,
\* (b) every cyclic cross product zero, (c) two cross products of opposite sign
TooFew(vs) == Len(vs) < 3
AllCollinear(vs) == Len(vs) >= 3 /\ Crosses(vs) \subseteq {0}
MixedTurns(vs) ==
    /\ Len(vs) >= 3
    /\ \E c \in Crosses(vs) : c > 0
    /\ \E c \in Crosses(vs) : c < 0

\* C3: for an input of kind (a), (b) or (c) the constructor yields no
\* object: its call, which ends with an object or with the error, can only
\* end with the error.  (SpecCtor)
C3_RejectsInvalid ==
    (TooFew(input["A"]) \/ AllCollinear(input["A"]) \/ MixedTurns(input["A"]))
        => obj["A"] = None

\* the constructor has raised for an input with turns of both signs
C3_Witness ==
    /\ MixedTurns(input["A"])
    /\ Len(input["A"]) = 4
    /\ Distinct(input["A"])
    /\ error["A"]
    /\ obj["A"] = None

\* ------------------------------------------------------------ C4
\* C4: the area of every accepted polygon is strictly positive.  (SpecOne)
C4_AreaPositive ==
    ret.op = "area" => ret.val > 0

\* ------------------------------------------------------------ C5
\* C5: contains_point returns true for every vertex of the polygon. (SpecOne)
C5_VertexContained ==
    (/\ ret.op = "contains_point"
     /\ \E k \in 1..Len(Self(ret.self)._vertices) :
            Self(ret.self)._vertices[k] = Val(ret.arg))
        => ret.val = TRUE

\* ------------------------------------------------------------ C6
\* C6: triangulation returns the n-2 triangles (v0, v_i, v_i+1), i = 1..n-2,
\* and their absolute areas add up to the area of the polygon.  (SpecOne)
C6_FanTriangulation ==
    ret.op = "triangulation" =>
        LET vs == Self(ret.self)._vertices
            n  == Len(vs)
        IN  /\ Len(ret.val) = n - 2
            /\ \A i \in 1..(n - 2) :
                   ret.val[i] = <<At(vs, 0), At(vs, i), At(vs, i + 1)>>
            /\ SumTriangleAreas(ret.val) = AreaOf(vs)

\* ------------------------------------------------------------ C7
\* C7: when A.contains_polygon(B) returns true, A.intersects(B) is true.
\* (SpecPair)
C7_ContainmentImpliesIntersection ==
    (ret.op = "contains_polygon" /\ ret.val = TRUE)
        => Intersects(Self(ret.self)._vertices, Self(Other)._vertices) = TRUE

\* contains_polygon has returned true for two different vertex lists
C7_Witness ==
    /\ ret.op = "contains_polygon"
    /\ ret.val = TRUE
    /\ Self(ret.self)._vertices # Self(Other)._vertices

\* ------------------------------------------------------------ C8
\* C8: the value A.intersects(B) returns is the value of B.intersects(A).
\* (SpecPair)
C8_IntersectsSymmetric ==
    ret.op = "intersects"
        => ret.val = Intersects(Self(Other)._vertices, Self(ret.self)._vertices)

\* intersects has returned false although no edge of self separates the two
C8_Witness ==
    /\ ret.op = "intersects"
    /\ ret.val = FALSE
    /\ SatCheck(Self(ret.self)._vertices, Self(Other)._vertices)

\* ------------------------------------------------------------ C9
\* C9: when the bounding boxes of A and B do not overlap, A.intersects(B)
\* returns false.  (SpecFar)
C9_BoxesApartNoIntersection ==
    (/\ ret.op = "intersects"
     /\ BoxesApart(BoundingBoxOf(Self(ret.self)._vertices),
                   BoundingBoxOf(Self(Other)._vertices)))
        => ret.val = FALSE

\* ------------------------------------------------------------ C10
\* the attributes of object s in the state after a step are sound: the
\* vertices are the caller's list in its order, each cache slot is unset or
\* holds the value computed from the vertices
SoundAfter(s) ==
    obj'[s] # None =>
        LET o  == Val(obj'[s])
            vs == ToPoints(input[s])
        IN  /\ o._vertices = vs
            /\ o._area \in {None, Some(AreaOf(vs))}
            /\ o._perimeter \in {None, Some(PerimeterOf(vs))}
            /\ o._bounding_box \in {None, Some(BoundingBoxOf(vs))}

\* a cache slot of s that is set keeps its value over a step
CacheKept(s) ==
    Constructed(s) =>
        /\ obj'[s] # None
        /\ Self(s)._area # None => Val(obj'[s])._area = Self(s)._area
        /\ Self(s)._perimeter # None => Val(obj'[s])._perimeter = Self(s)._perimeter
        /\ Self(s)._bounding_box # None
               => Val(obj'[s])._bounding_box = Self(s)._bounding_box

\* an access to area or bounding_box returns the value computed from the
\* caller's list, which is the value a first access has put into the slot
SameAsFirst ==
    /\ (ret' # ret /\ ret'.op = "area") =>
           /\ ret'.val = AreaOf(ToPoints(input[ret'.self]))
           /\ Self(ret'.self)._area # None
                  => ret'.val = Val(Self(ret'.self)._area)
    /\ (ret' # ret /\ ret'.op = "bounding_box") =>
           /\ ret'.val = BoundingBoxOf(ToPoints(input[ret'.self]))
           /\ Self(ret'.self)._bounding_box # None
                  => ret'.val = Val(Self(ret'.self)._bounding_box)

\* the queries leave every attribute of every object as it is
QueriesPure ==
    (/\ ret' # ret
     /\ ret'.op \in {"contains_point", "contains_polygon", "intersects",
                     "triangulation"})
        => obj' = obj

C10_Step ==
    /\ input' = input
    /\ \A s \in Slots : SoundAfter(s) /\ CacheKept(s)
    /\ SameAsFirst
    /\ QueriesPure

\* C10: a constructed polygon is immutable and its memoization is not
\* observable: over every step the vertices stay the caller's list, a cache
\* slot is unset or holds the value computed from the vertices, area and
\* bounding_box return what the first access returned, and contains_point,
\* contains_polygon, intersects and triangulation change no attribute. (Spec)
C10_ImmutableMemoized == [][C10_Step]_vars

\* intersects has returned on an object whose three cache slots are filled
C10_Witness ==
    /\ Constructed("A")
    /\ Self("A")._area # None
    /\ Self("A")._perimeter # None
    /\ Self("A")._bounding_box # None
    /\ ret.op = "intersects"

====
